---- MODULE Spec2Model ----
(***************************************************************************)
(* The error-propagation calculator of the Error Analysis page             *)
(* (src/pages/4_Error_Analysis.py, Step 3).                                *)
(*                                                                         *)
(* One action is one run of the Streamlit script, started by one user      *)
(* interaction.  Python floats are modelled as exact rationals (no         *)
(* rounding, no overflow); an irrational square root is kept as the root   *)
(* of its rational radicand.                                               *)
(*                                                                         *)
(* Input language of the expression box: a text is a sequence of tokens    *)
(* (identifiers, the digits 1..3, + - * / ^), without parentheses and      *)
(* with integer-literal exponents only.  On this language sympy's          *)
(* automatic evaluation yields a sum of monomials with like terms          *)
(* collected, which is how an expression is represented here.              *)
(***************************************************************************)
EXTENDS Integers, Sequences, FiniteSets, TLC

\* ------------------------------------------------------------------------
\* Exact rationals [n, d], d > 0, gcd(n, d) = 1
\* ------------------------------------------------------------------------

AbsInt(i) == IF i < 0 THEN -i ELSE i

RECURSIVE Gcd(_, _)
Gcd(a, b) == IF b = 0 THEN a ELSE Gcd(b, a % b)

Reduced(n, d, g) == [n |-> n \div g, d |-> d \div g]

R(n, d) == IF d < 0 THEN Reduced(-n, -d, Gcd(AbsInt(n), AbsInt(d)))
                    ELSE Reduced(n, d, Gcd(AbsInt(n), AbsInt(d)))

RZero == [n |-> 0, d |-> 1]
ROne  == [n |-> 1, d |-> 1]
RAdd(p, q) == R(p.n * q.d + q.n * p.d, p.d * q.d)
RMul(p, q) == R(p.n * q.n, p.d * q.d)
RNeg(p)    == [n |-> -p.n, d |-> p.d]
RInv(p)    == R(p.d, p.n)
RAbs(p)    == [n |-> AbsInt(p.n), d |-> p.d]

RECURSIVE RPowNat(_, _)
RPowNat(p, e) == IF e = 0 THEN ROne ELSE RMul(p, RPowNat(p, e - 1))

\* p ^ e for an integer e; p # 0 when e < 0
RPow(p, e) == IF e >= 0 THEN RPowNat(p, e) ELSE RPowNat(RInv(p), -e)

\* ------------------------------------------------------------------------
\* Numbers as sympy and Python hold them: a finite number, sympy's zoo
\* (complex infinity) or nan; "none" is Python's None.
\* ------------------------------------------------------------------------

Fin(q) == [k |-> "fin", n |-> q.n, d |-> q.d]
Zoo    == [k |-> "zoo", n |-> 0, d |-> 1]
NaN    == [k |-> "nan", n |-> 0, d |-> 1]
None   == [k |-> "none", n |-> 0, d |-> 1]
Q(v)   == [n |-> v.n, d |-> v.d]
XZero  == Fin(RZero)
IsZero(v) == v.k = "fin" /\ v.n = 0

\* sympy Add of two numbers
XAdd(u, v) ==
    IF u.k = "nan" \/ v.k = "nan" THEN NaN
    ELSE IF u.k = "zoo" /\ v.k = "zoo" THEN NaN
    ELSE IF u.k = "zoo" \/ v.k = "zoo" THEN Zoo
    ELSE Fin(RAdd(Q(u), Q(v)))

\* sympy Mul of two numbers
XMul(u, v) ==
    IF u.k = "nan" \/ v.k = "nan" THEN NaN
    ELSE IF (u.k = "zoo" /\ IsZero(v)) \/ (v.k = "zoo" /\ IsZero(u)) THEN NaN
    ELSE IF u.k = "zoo" \/ v.k = "zoo" THEN Zoo
    ELSE Fin(RMul(Q(u), Q(v)))

\* sympy Pow of a number by a non-zero integer
XPow(u, e) ==
    IF u.k = "nan" THEN NaN
    ELSE IF u.k = "zoo" THEN (IF e > 0 THEN Zoo ELSE XZero)
    ELSE IF u.n = 0 THEN (IF e > 0 THEN XZero ELSE Zoo)
    ELSE Fin(RPow(Q(u), e))

\* ------------------------------------------------------------------------
\* Expression text and its parse (sympify)
\* ------------------------------------------------------------------------

Names  == {"x", "y", "z"}
Digits == {"1", "2", "3"}

\* ordinal of an identifier, the key sorted() compares
Ord(name) == CASE name = "x" -> 120 [] name = "y" -> 121 [] name = "z" -> 122

DigitVal(t) == CASE t = "1" -> 1 [] t = "2" -> 2 [] t = "3" -> 3

NoExp == [v \in Names |-> 0]

\* a monomial c * x^ex.x * y^ex.y * z^ex.z
Mono(c, ex) == [c |-> c, ex |-> ex]

MonoMul(a, b) == Mono(RMul(a.c, b.c), [v \in Names |-> a.ex[v] + b.ex[v]])
MonoDiv(a, b) == Mono(RMul(a.c, RInv(b.c)), [v \in Names |-> a.ex[v] - b.ex[v]])
MonoPow(a, e) == Mono(RPow(a.c, e), [v \in Names |-> a.ex[v] * e])
MonoNeg(a)    == Mono(RNeg(a.c), a.ex)

\* sympy Add: like terms are collected and a zero coefficient drops the term
Collect(rest, c, ex) == IF c.n = 0 THEN rest ELSE rest \cup {Mono(c, ex)}

PolyAdd(p, m) ==
    IF \A t \in p : t.ex # m.ex THEN p \cup {m}
    ELSE Collect({t \in p : t.ex # m.ex},
                 RAdd((CHOOSE t \in p : t.ex = m.ex).c, m.c), m.ex)

Fail == [ok |-> FALSE, val |-> Mono(ROne, NoExp), pos |-> 0]
Got(v, i) == [ok |-> TRUE, val |-> v, pos |-> i]

Tok(t, i) == IF i <= Len(t) THEN t[i] ELSE "end"

\* atom := identifier | digit
ParseAtom(t, i) ==
    IF Tok(t, i) \in Names
    THEN Got(Mono(ROne, [v \in Names |-> IF v = Tok(t, i) THEN 1 ELSE 0]), i + 1)
    ELSE IF Tok(t, i) \in Digits
    THEN Got(Mono(R(DigitVal(Tok(t, i)), 1), NoExp), i + 1)
    ELSE Fail

\* power := atom [ '^' ['-'] digit ]     (sympify converts ^ to **)
Exponent(t, a) ==
    IF ~a.ok \/ Tok(t, a.pos) # "^" THEN a
    ELSE IF Tok(t, a.pos + 1) \in Digits
    THEN Got(MonoPow(a.val, DigitVal(Tok(t, a.pos + 1))), a.pos + 2)
    ELSE IF Tok(t, a.pos + 1) = "-" /\ Tok(t, a.pos + 2) \in Digits
    THEN Got(MonoPow(a.val, -DigitVal(Tok(t, a.pos + 2))), a.pos + 3)
    ELSE Fail

ParsePower(t, i) == Exponent(t, ParseAtom(t, i))

\* factor := ('-' | '+') factor | power
Negated(f) == IF f.ok THEN Got(MonoNeg(f.val), f.pos) ELSE Fail

RECURSIVE ParseFactor(_, _)
ParseFactor(t, i) ==
    IF Tok(t, i) = "-" THEN Negated(ParseFactor(t, i + 1))
    ELSE IF Tok(t, i) = "+" THEN ParseFactor(t, i + 1)
    ELSE ParsePower(t, i)

\* term := factor (('*' | '/') factor)*
RECURSIVE TermRest(_, _, _)
TermStep(t, acc, op, f) ==
    IF ~f.ok THEN Fail
    ELSE TermRest(t, IF op = "*" THEN MonoMul(acc, f.val) ELSE MonoDiv(acc, f.val),
                  f.pos)

TermRest(t, acc, i) ==
    IF Tok(t, i) \in {"*", "/"} THEN TermStep(t, acc, Tok(t, i), ParseFactor(t, i + 1))
    ELSE Got(acc, i)

TermFrom(t, f) == IF f.ok THEN TermRest(t, f.val, f.pos) ELSE Fail

ParseTerm(t, i) == TermFrom(t, ParseFactor(t, i))

\* expr := term (('+' | '-') term)*
NoExpr == [ok |-> FALSE, expr |-> {}, pos |-> 0]

RECURSIVE ExprRest(_, _, _)
ExprStep(t, acc, op, m) ==
    IF ~m.ok THEN NoExpr
    ELSE ExprRest(t, PolyAdd(acc, IF op = "+" THEN m.val ELSE MonoNeg(m.val)), m.pos)

ExprRest(t, acc, i) ==
    IF Tok(t, i) \in {"+", "-"} THEN ExprStep(t, acc, Tok(t, i), ParseTerm(t, i + 1))
    ELSE [ok |-> TRUE, expr |-> acc, pos |-> i]

ExprFrom(t, m) == IF m.ok THEN ExprRest(t, {m.val}, m.pos) ELSE NoExpr

\* the whole text must be one expression
Whole(t, e) ==
    IF e.ok /\ e.pos = Len(t) + 1 THEN [ok |-> TRUE, expr |-> e.expr]
    ELSE [ok |-> FALSE, expr |-> {}]

\* sympify(expression); ok = FALSE stands for SympifyError
sympify(t) == Whole(t, ExprFrom(t, ParseTerm(t, 1)))

\* expr.free_symbols
free_symbols(p) == {v \in Names : \E m \in p : m.ex[v] # 0}

\* sorted(list(S), key=lambda x: x.name)
First(S) == CHOOSE v \in S : \A w \in S : Ord(v) <= Ord(w)

RECURSIVE SortByName(_)
SortByName(S) ==
    IF S = {} THEN <<>> ELSE <<First(S)>> \o SortByName(S \ {First(S)})

Range(s) == {s[i] : i \in 1..Len(s)}

\* ------------------------------------------------------------------------
\* Evaluation: expr.subs(subs_dict), diff(expr, var), math.sqrt
\* ------------------------------------------------------------------------

\* One replacement  var -> val  inside one term.  Mul's evaluation: a nan or
\* zero coefficient absorbs the factors that are still symbolic.
Absorb(c, ex) ==
    IF c.k = "nan" \/ IsZero(c) THEN [c |-> c, ex |-> NoExp] ELSE [c |-> c, ex |-> ex]

SubsTerm(t, var, val) ==
    IF t.ex[var] = 0 THEN t
    ELSE Absorb(XMul(t.c, XPow(val, t.ex[var])), [t.ex EXCEPT ![var] = 0])

\* subs replaces the symbols one after the other, in the order of their names
RECURSIVE SubsSeq(_, _, _, _)
SubsSeq(t, variables, i, subs_dict) ==
    IF i > Len(variables) THEN t
    ELSE SubsSeq(SubsTerm(t, variables[i], Fin(subs_dict[variables[i]])),
                 variables, i + 1, subs_dict)

RECURSIVE SumTerms(_, _, _)
SumFrom(p, m, variables, subs_dict) ==
    XAdd(SubsSeq([c |-> Fin(m.c), ex |-> m.ex], variables, 1, subs_dict).c,
         SumTerms(p \ {m}, variables, subs_dict))

SumTerms(p, variables, subs_dict) ==
    IF p = {} THEN XZero
    ELSE SumFrom(p, CHOOSE t \in p : TRUE, variables, subs_dict)

\* expr.subs(subs_dict): a number (finite, zoo or nan), never an exception
subs(p, variables, subs_dict) == SumTerms(p, variables, subs_dict)

\* diff(expr, var): the exact symbolic partial derivative
diff(p, var) ==
    {Mono(RMul(m.c, R(m.ex[var], 1)), [m.ex EXCEPT ![var] = @ - 1]) :
        m \in {t \in p : t.ex[var] # 0}}

\* the largest r in lo..hi with r * r <= n, by bisection
RECURSIVE RootBetween(_, _, _)
RootBetween(n, lo, hi) ==
    IF lo >= hi THEN lo
    ELSE LET mid == (lo + hi + 1) \div 2
         IN  IF mid * mid <= n THEN RootBetween(n, mid, hi)
                               ELSE RootBetween(n, lo, mid - 1)

ISqrt(n)    == RootBetween(n, 0, n)
IsSquare(n) == ISqrt(n) * ISqrt(n) = n

\* A real number the page computes with floats: finite rational ("fin"), the
\* irrational root of the rational n/d ("surd"), or nan.
Surd(q) == [k |-> "surd", n |-> q.n, d |-> q.d]

\* math.sqrt of a finite non-negative number or of nan
math_sqrt(v) ==
    IF v.k = "nan" THEN NaN
    ELSE IF IsSquare(v.n) /\ IsSquare(v.d) THEN Fin(R(ISqrt(v.n), ISqrt(v.d)))
    ELSE Surd(Q(v))

\* the real v times the positive rational q
Scale(v, q) ==
    IF v.k = "nan" THEN NaN
    ELSE IF v.k = "surd" THEN Surd(RMul(Q(v), RMul(q, q)))
    ELSE Fin(RMul(Q(v), q))

Hundred == 100

\* the percentage without abs(): negative for a negative result
PercentOfSigned(propagated, result) ==
    Scale(propagated, RMul(RInv(Q(result)), R(Hundred, 1)))

\* (propagated_error / abs(float(result))) * 100, result finite and non-zero
PercentOf(propagated, result) ==
    Scale(propagated, RMul(RInv(RAbs(Q(result))), R(Hundred, 1)))

\* a term that is not squared
ErrorTermUnsquared(partial_deriv_value, var_uncertainty) ==
    XMul(partial_deriv_value, Fin(var_uncertainty))

\* lines 388-401: the sum of (partial derivative value * uncertainty) ** 2
\* line 401: (partial_deriv_value * var_uncertainty) ** 2
ErrorTerm(partial_deriv_value, var_uncertainty) ==
    XPow(XMul(partial_deriv_value, Fin(var_uncertainty)), 2)

RECURSIVE ErrorSquaredSum(_, _, _, _, _)
ErrorSquaredSum(expr, variables, i, subs_dict, bindings) ==
    IF i > Len(variables) THEN XZero
    ELSE XAdd(ErrorTerm(subs(diff(expr, variables[i]), variables, subs_dict),
                        bindings[variables[i]].uncertainty),
              ErrorSquaredSum(expr, variables, i + 1, subs_dict, bindings))

\* What one press of "Calculate Propagated Error" does (lines 382-436):
\*   kind       "result" (displayed) or "calc_error" (st.error at line 436)
\*   stored_pe  whether line 407 was reached (propagated_error assigned)
\*   stored_pct whether line 412 or 415 was reached (percentage_error assigned)
Outcome(kind, result, pe, pct, stored_pe, stored_pct) ==
    [kind |-> kind, result |-> result, propagated_error |-> pe,
     percentage_error |-> pct, stored_pe |-> stored_pe, stored_pct |-> stored_pct]

\* lines 409-415, once propagated_error is stored
Percentage(result, propagated_error) ==
    IF IsZero(result)
    THEN Outcome("result", result, propagated_error, None, TRUE, TRUE)
    ELSE IF result.k = "zoo"
    THEN \* float(zoo) raises TypeError at line 411, after line 407
         Outcome("calc_error", result, propagated_error, None, TRUE, FALSE)
    ELSE Outcome("result", result, propagated_error,
                 IF result.k = "nan" THEN NaN ELSE PercentOf(propagated_error, result),
                 TRUE, TRUE)

\* lines 404-415
Combine(result, error_squared_sum) ==
    IF error_squared_sum.k = "zoo"
    THEN \* math.sqrt(zoo) raises TypeError before anything is stored
         Outcome("calc_error", result, None, None, FALSE, FALSE)
    ELSE Percentage(result, math_sqrt(error_squared_sum))

Propagate(expr, variables, subs_dict, bindings) ==
    Combine(subs(expr, variables, subs_dict),
            ErrorSquaredSum(expr, variables, 1, subs_dict, bindings))

Evaluate(expr, variables, bindings) ==
    Propagate(expr, variables, [v \in Range(variables) |-> bindings[v].value], bindings)

\* ------------------------------------------------------------------------
\* The data table (st.session_state.data_df) and what the pages compute
\* from its columns.  A table is a sequence of columns, a column a sequence
\* of numbers; the columns are, in order, the independent variable, the
\* dependent variable and the trials.
\* ------------------------------------------------------------------------

num_rows   == 5
num_trials == 3

\* a DataFrame without rows or columns: data_df.empty
NoTable == <<>>

\* 3_Data_Analysis.py lines 99-104: the table of zeros the page generates
ZeroTable == [c \in 1..(2 + num_trials) |-> [r \in 1..num_rows |-> RZero]]

\* 3_Data_Analysis.py lines 62-68: the generic example data
ExampleData ==
    LET Tenths(s) == [i \in 1..Len(s) |-> R(s[i], 10)]
    IN  << Tenths(<<10, 20, 30, 40, 50>>), Tenths(<<21, 39, 63, 82, 105>>),
           Tenths(<<20, 40, 61, 80, 103>>), Tenths(<<22, 38, 64, 83, 106>>),
           Tenths(<<21, 39, 64, 83, 106>>) >>

RECURSIVE RSum(_)
RSum(s) == IF s = <<>> THEN RZero ELSE RAdd(Head(s), RSum(Tail(s)))

\* np.mean and np.max - np.min
np_mean(s)  == RMul(RSum(s), R(1, Len(s)))
np_range(s) ==
    LET RLess(p, q) == p.n * q.d < q.n * p.d
        max == CHOOSE a \in Range(s) : \A b \in Range(s) : ~RLess(a, b)
        min == CHOOSE a \in Range(s) : \A b \in Range(s) : ~RLess(b, a)
    IN  RAdd(max, RNeg(min))

\* np.std(s, ddof=1) / sqrt(n): 0/0 is nan for a single value
np_std(s, n) ==
    LET Deviation2(mean) ==
            RSum([i \in 1..Len(s) |->
                    RMul(RAdd(s[i], RNeg(mean)), RAdd(s[i], RNeg(mean)))])
    IN  IF Len(s) = 1 THEN NaN
        ELSE math_sqrt(Fin(RMul(Deviation2(np_mean(s)), R(1, (Len(s) - 1) * n))))

Methods == <<"Range Method", "Standard Deviation", "Standard Error of the Mean">>

\* 4_Error_Analysis.py lines 109-117 (and 187-189)
absolute_uncertainty(uncertainty_method, s) ==
    IF uncertainty_method = Methods[1] THEN Fin(RMul(np_range(s), R(1, 2)))
    ELSE IF uncertainty_method = Methods[2] THEN np_std(s, 1)
    ELSE np_std(s, Len(s))

\* 4_Error_Analysis.py line 123: (absolute_uncertainty / abs(mean_value)) * 100;
\* numpy's float64 division by zero gives inf, or nan for 0/0, with a warning
\* and without an exception
percentage_uncertainty(absolute, mean_value) ==
    IF mean_value.n # 0
    THEN Scale(absolute, RMul(RInv(RAbs(mean_value)), R(Hundred, 1)))
    ELSE IF absolute.k = "nan" \/ IsZero(absolute) THEN NaN
    ELSE [k |-> "inf", n |-> 0, d |-> 1]

\* 4_Error_Analysis.py lines 85-213, what Step 2 computes and displays:
\* from the first numeric column of the table by the selected method (lines
\* 85-156), from the measurements typed into the text area by each method
\* (lines 165-197), and from the instrument's value and its default
\* precision of 0.1 (lines 201-213)
Step2(table, uncertainty_method, measurements, value) ==
    [data |->
        IF table = NoTable THEN [absolute |-> None, percentage |-> None]
        ELSE [absolute   |-> absolute_uncertainty(uncertainty_method, table[1]),
              percentage |-> percentage_uncertainty(
                                 absolute_uncertainty(uncertainty_method, table[1]),
                                 np_mean(table[1]))],
     manual |->
        [i \in 1..3 |->
            IF measurements = <<>> THEN None
            ELSE percentage_uncertainty(absolute_uncertainty(Methods[i], measurements),
                                        np_mean(measurements))],
     instrument |->
        IF value.n # 0
        THEN [percentage |-> percentage_uncertainty(Fin(R(1, 20)), value),
              warning |-> FALSE]
        ELSE [percentage |-> None, warning |-> TRUE]]

\* scipy.stats.linregress: the least-squares line through the points
linregress(x, y) ==
    LET n   == R(Len(x), 1)
        sx  == RSum(x)
        sy  == RSum(y)
        sxx == RSum([i \in 1..Len(x) |-> RMul(x[i], x[i])])
        sxy == RSum([i \in 1..Len(x) |-> RMul(x[i], y[i])])
        den == RAdd(RMul(n, sxx), RNeg(RMul(sx, sx)))
        slope == RMul(RAdd(RMul(n, sxy), RNeg(RMul(sx, sy))), RInv(den))
    IN  [slope |-> slope,
         intercept |-> RMul(RAdd(sy, RNeg(RMul(slope, sx))), RInv(n))]

\* a figure that leaves the line out when there is nothing to fit
FigureWithoutPlaceholder(regression_line, slope, intercept, regression_text, warning) ==
    [regression_line |-> regression_line /\ ~warning, slope |-> slope,
     intercept |-> intercept,
     regression_text |-> IF warning THEN "" ELSE regression_text,
     warning |-> warning]

\* 3_Data_Analysis.py lines 208-222: the trace of the regression line
\* (y_range = slope * x_range + intercept) and the annotation
Figure(regression_line, slope, intercept, regression_text, warning) ==
    [regression_line |-> regression_line, slope |-> slope, intercept |-> intercept,
     regression_text |-> regression_text, warning |-> warning]

\* 3_Data_Analysis.py lines 148-225: the scatter plot of the first column
\* against the second of the remaining ones, the defaults of the select boxes
ScatterPlot(table, regression) ==
    IF table = NoTable \/ ~regression THEN Figure(FALSE, RZero, RZero, "", FALSE)
    ELSE IF Cardinality(Range(table[1])) > 1
    THEN Figure(TRUE, linregress(table[1], table[3]).slope,
                linregress(table[1], table[3]).intercept, "y = mx + b", FALSE)
    ELSE Figure(TRUE, RZero, RZero,
                "Unable to calculate regression - identical x values", TRUE)

\* ------------------------------------------------------------------------
\* The page: session state, widgets and what the last run displayed
\* ------------------------------------------------------------------------

VARIABLES
    propagation_method,  \* the radio at line 239
    error_formula,       \* st.session_state.error_formula
    error_variables,     \* st.session_state.error_variables: name -> binding
    propagated_error,    \* st.session_state.propagated_error
    percentage_error,    \* st.session_state.percentage_error
    inputs,              \* the variables whose number inputs the last run rendered
    button,              \* whether the last run rendered the Complex Function button
    operation,           \* Basic Operations widgets (lines 244-258)
    value_a, uncertainty_a, value_b, uncertainty_b, power_n,
    shown,               \* what the last run displayed in the calculator
    event,               \* the interaction that started the last run
    page,                \* the page of the app the user is on
    data_df,             \* st.session_state.data_df
    analysis_type,       \* st.session_state.analysis_type
    p_value,             \* st.session_state.p_value
    stat_result,         \* st.session_state.stat_result
    use_example,         \* Data Analysis: the example data checkbox (line 30)
    uploaded_file,       \* Data Analysis: the table in the file uploader (line 74)
    add_regression,      \* Data Analysis: the regression line checkbox (line 173)
    fig,                 \* Data Analysis: the plot the last run drew
    calculated_abs_uncertainty,         \* st.session_state, line 127
    calculated_percentage_uncertainty,  \* st.session_state, line 128
    uncertainty_method,  \* Step 2: the radio at line 106
    manual_measurements, \* Step 2: the text area at line 165
    instrument_value,    \* Step 2: the number input at line 201
    step2,               \* what Step 2 of the last run displayed
    student_name, title, introduction, conclusion,  \* st.session_state
    report               \* Report Generation: what the last run displayed

session == <<error_formula, error_variables, propagated_error, percentage_error>>
complex == <<inputs, button>>
basic   == <<operation, value_a, uncertainty_a, value_b, uncertainty_b, power_n>>
data_analysis     == <<data_df, analysis_type, p_value, stat_result,
                       use_example, uploaded_file, add_regression, fig>>
uncertainty       == <<calculated_abs_uncertainty, calculated_percentage_uncertainty,
                       uncertainty_method, manual_measurements, instrument_value, step2>>
report_generation == <<student_name, title, introduction, conclusion, report>>
vars    == <<propagation_method, session, complex, basic, shown, event, page,
             data_analysis, uncertainty, report_generation>>

Basic   == "Basic Operations"
Complex == "Complex Function"

\* the text the expression box falls back to (line 338)
DefaultExpression == <<"x", "+", "y">>

\* uncertainty inputs that accept numbers down to -1
min_value_negative == R(-1, 1)

\* min_value of the uncertainty inputs (lines 251, 256, 373)
min_value == RZero

NewBinding == [value |-> RZero, uncertainty |-> RZero]
NoBindings == [v \in {} |-> NewBinding]

Display(kind, result, pe, pct) ==
    [kind |-> kind, result |-> result, propagated_error |-> pe, percentage_error |-> pct]
Nothing == Display("none", None, None, None)

\* a statistical result, known by the test that produced it and the table it
\* was computed from; NoResult is Python's None
NoResult == [by |-> "", of |-> NoTable]

\* what a press of "Generate IA Report" displays: the download link of the
\* PDF, the success message and the error messages
NoReport == [pdf |-> FALSE, success |-> FALSE, errors |-> <<>>]

\* lines 12-24 and the first run of the page, with every widget at its default
OperandDefaults ==
    /\ operation = "Addition" /\ value_a = RZero /\ uncertainty_a = RZero
    /\ value_b = RZero /\ uncertainty_b = RZero /\ power_n = R(2, 1)

Init ==
    /\ propagation_method = Basic
    /\ error_formula = <<>>
    /\ error_variables = NoBindings
    /\ propagated_error = None
    /\ percentage_error = None
    /\ inputs = <<>> /\ button = FALSE
    /\ OperandDefaults
    /\ shown = Nothing
    /\ event = "load"
    /\ page = "Error Analysis"
    /\ data_df = NoTable /\ analysis_type = "" /\ p_value = NoResult
    /\ stat_result = NoResult
    /\ use_example = FALSE /\ uploaded_file = NoTable /\ add_regression = TRUE
    /\ fig = Figure(FALSE, RZero, RZero, "", FALSE)
    /\ calculated_abs_uncertainty = None /\ calculated_percentage_uncertainty = None
    /\ uncertainty_method = Methods[1] /\ manual_measurements = <<>>
    /\ instrument_value = RZero
    /\ step2 = Step2(NoTable, Methods[1], <<>>, RZero)
    /\ student_name = "" /\ title = "" /\ introduction = "" /\ conclusion = ""
    /\ report = NoReport

\* A run of the Error Analysis page started from its calculator: the other
\* pages' state stays, and Step 2 (lines 85-213) computes, displays and
\* stores again what it did in the run before, from the same table and widgets
ErrorAnalysisStays ==
    /\ page = "Error Analysis"
    /\ UNCHANGED <<page, data_analysis, uncertainty, report_generation>>

\* widgets that a run does not render come back with their defaults
ResetOperands ==
    /\ operation' = "Addition" /\ value_a' = RZero /\ uncertainty_a' = RZero
    /\ value_b' = RZero /\ uncertainty_b' = RZero /\ power_n' = R(2, 1)

\* value=st.session_state.error_formula or "x+y"
TextBox == IF error_formula = <<>> THEN DefaultExpression ELSE error_formula

\* lines 352-353: an empty store is replaced by zero bindings for the variables
InitialiseStore(ev, variables) ==
    IF DOMAIN ev = {} THEN [v \in Range(variables) |-> NewBinding] ELSE ev

\* a reconciliation that adds nothing to a store that is not empty
AddNothing(ev, variables) == ev

\* lines 356-358: every variable of the expression gets a binding
AddMissing(ev, variables) ==
    [v \in DOMAIN ev \cup Range(variables) |->
        IF v \in DOMAIN ev THEN ev[v] ELSE NewBinding]

\* the store rebuilt from scratch on every parse
ReconcileFresh(ev, variables) == [v \in Range(variables) |-> NewBinding]

Reconcile(ev, variables) == AddMissing(InitialiseStore(ev, variables), variables)

NoEdit == [name |-> "", field |-> "", val |-> RZero]
Edit(name, field, val) == [name |-> name, field |-> field, val |-> val]

\* lines 364-378: each rendered number input returns what the user entered, or
\* else the stored number, and the return value is stored
StoreInputs(ev, variables, edit) ==
    [v \in DOMAIN ev |->
        IF v \in Range(variables) /\ edit.name = v
        THEN [ev[v] EXCEPT ![edit.field] = edit.val]
        ELSE ev[v]]

\* st.columns(len(variables)) raises for 0 columns (line 361)
ColumnsRaises(variables) == Len(variables) = 0

\* a press that stores the percentage error only
PressPercentageOnly(out) ==
    /\ propagated_error' = propagated_error
    /\ percentage_error' = IF out.stored_pct THEN out.percentage_error
                                             ELSE percentage_error
    /\ shown' = IF out.kind = "result"
                THEN Display("result", out.result, out.propagated_error,
                             out.percentage_error)
                ELSE Display("calc_error", None, None, None)

\* the press of the button inside a run (lines 381-436)
Press(out) ==
    /\ propagated_error' = IF out.stored_pe THEN out.propagated_error
                                            ELSE propagated_error
    /\ percentage_error' = IF out.stored_pct THEN out.percentage_error
                                             ELSE percentage_error
    /\ shown' = IF out.kind = "result"
                THEN Display("result", out.result, out.propagated_error,
                             out.percentage_error)
                ELSE Display("calc_error", None, None, None)

\* an evaluation that reuses the propagated error of an earlier press
EvaluateRemembering(expr, variables, bindings) ==
    IF propagated_error.k \in {"fin", "surd"}
    THEN Percentage(subs(expr, variables, [v \in Range(variables) |-> bindings[v].value]),
                    propagated_error)
    ELSE Propagate(expr, variables, [v \in Range(variables) |-> bindings[v].value],
                   bindings)

RenderRemembering(expr, variables, bindings, pressed) ==
    /\ error_variables' = bindings
    /\ inputs' = variables /\ button' = TRUE
    /\ IF pressed THEN Press(EvaluateRemembering(expr, variables, bindings))
       ELSE /\ UNCHANGED <<propagated_error, percentage_error>>
            /\ shown' = Nothing

\* a run whose press also resets the bindings it evaluated
RenderClearing(expr, variables, bindings, pressed) ==
    /\ error_variables' = IF pressed THEN [v \in DOMAIN bindings |-> NewBinding]
                                     ELSE bindings
    /\ inputs' = variables /\ button' = TRUE
    /\ IF pressed THEN Press(Evaluate(expr, variables, bindings))
       ELSE /\ UNCHANGED <<propagated_error, percentage_error>>
            /\ shown' = Nothing

\* lines 364-436, with the bindings the number inputs returned
Render(expr, variables, bindings, pressed) ==
    /\ error_variables' = bindings
    /\ inputs' = variables /\ button' = TRUE
    /\ IF pressed THEN Press(Evaluate(expr, variables, bindings))
       ELSE /\ UNCHANGED <<propagated_error, percentage_error>>
            /\ shown' = Nothing

\* lines 346-439, after a successful sympify
Discover(expr, variables, edit, pressed) ==
    IF ColumnsRaises(variables)
    THEN /\ error_variables' = Reconcile(error_variables, variables)
         /\ UNCHANGED <<propagated_error, percentage_error>>
         /\ inputs' = <<>> /\ button' = FALSE
         /\ shown' = Display("parse_error", None, None, None)
    ELSE Render(expr, variables,
                StoreInputs(Reconcile(error_variables, variables), variables, edit),
                pressed)

\* a parse failure that also empties the store
ParsedClearing(p, edit, pressed) ==
    IF ~p.ok
    THEN /\ error_variables' = NoBindings
         /\ UNCHANGED <<propagated_error, percentage_error>>
         /\ inputs' = <<>> /\ button' = FALSE
         /\ shown' = Display("parse_error", None, None, None)
    ELSE Discover(p.expr, SortByName(free_symbols(p.expr)), edit, pressed)

Parsed(p, edit, pressed) ==
    IF ~p.ok
    THEN /\ UNCHANGED <<error_variables, propagated_error, percentage_error>>
         /\ inputs' = <<>> /\ button' = FALSE
         /\ shown' = Display("parse_error", None, None, None)
    ELSE Discover(p.expr, SortByName(free_symbols(p.expr)), edit, pressed)

\* One run of the Complex Function branch (lines 331-439)
ComplexRun(expression, edit, pressed) ==
    /\ error_formula' = expression
    /\ Parsed(sympify(expression), edit, pressed)

\* ------------------------------------------------------------------------
\* Basic Operations (lines 242-329)
\* ------------------------------------------------------------------------

Operations == {"Addition", "Subtraction", "Multiplication", "Division", "Power"}

RSq(q) == RMul(q, q)

\* math.sqrt(rel_error_a**2 + rel_error_b**2)
RelError(a, da, b, db) ==
    math_sqrt(Fin(RAdd(RSq(RMul(da, RInv(RAbs(a)))), RSq(RMul(db, RInv(RAbs(b)))))))

\* a display that needs a result only
BasicDisplayLenient(result, pe) ==
    IF result # None
    THEN Display("result", result, pe, None)
    ELSE Display("unable", None, None, None)

\* lines 318-329
BasicDisplay(result, pe) ==
    IF result # None /\ pe # None
    THEN Display("result", result, pe,
                 IF ~IsZero(result) THEN PercentOf(pe, result) ELSE None)
    ELSE Display("unable", None, None, None)

\* lines 261-329; n is an integer
BasicCompute(op, a, da, b, db, n) ==
    CASE op = "Addition" ->
           BasicDisplay(Fin(RAdd(a, b)), math_sqrt(Fin(RAdd(RSq(da), RSq(db)))))
      [] op = "Subtraction" ->
           BasicDisplay(Fin(RAdd(a, RNeg(b))), math_sqrt(Fin(RAdd(RSq(da), RSq(db)))))
      [] op = "Multiplication" ->
           IF a.n # 0 /\ b.n # 0
           THEN BasicDisplay(Fin(RMul(a, b)),
                             Scale(RelError(a, da, b, db), RAbs(RMul(a, b))))
           ELSE BasicDisplay(Fin(RMul(a, b)), None)
      [] op = "Division" ->
           IF b.n # 0
           THEN IF a.n # 0
                THEN BasicDisplay(Fin(RMul(a, RInv(b))),
                                  Scale(RelError(a, da, b, db), RAbs(RMul(a, RInv(b)))))
                ELSE BasicDisplay(Fin(RMul(a, RInv(b))), None)
           ELSE BasicDisplay(None, None)
      [] op = "Power" ->
           IF a.n = 0 /\ n.n < 0
           THEN \* 0.0 ** negative raises ZeroDivisionError, which nothing catches
                Display("exception", None, None, None)
           ELSE IF a.n # 0
           THEN BasicDisplay(Fin(RPow(a, n.n)),
                             Fin(RMul(RAbs(RPow(a, n.n)),
                                      RMul(RAbs(n), RMul(da, RInv(RAbs(a)))))))
           ELSE BasicDisplay(Fin(RPow(a, n.n)), None)

\* a basic calculator that stores its uncertainty in the session
BasicRunStoring(op, a, da, b, db, n, pressed) ==
    /\ operation' = op
    /\ value_a' = a /\ uncertainty_a' = da
    /\ value_b' = IF op = "Power" THEN RZero ELSE b
    /\ uncertainty_b' = IF op = "Power" THEN RZero ELSE db
    /\ power_n' = IF op = "Power" THEN n ELSE R(2, 1)
    /\ shown' = IF pressed THEN BasicCompute(op, a, da, b, db, n) ELSE Nothing
    /\ propagated_error' = IF pressed THEN BasicCompute(op, a, da, b, db, n).propagated_error
                                      ELSE propagated_error
    /\ UNCHANGED <<propagation_method, error_formula, error_variables,
                   percentage_error, complex>>

\* One run of the Basic Operations branch.  Widgets that a run does not render
\* lose their state and come back with their defaults.
BasicRun(op, a, da, b, db, n, pressed) ==
    /\ operation' = op
    /\ value_a' = a /\ uncertainty_a' = da
    /\ value_b' = IF op = "Power" THEN RZero ELSE b
    /\ uncertainty_b' = IF op = "Power" THEN RZero ELSE db
    /\ power_n' = IF op = "Power" THEN n ELSE R(2, 1)
    /\ shown' = IF pressed THEN BasicCompute(op, a, da, b, db, n) ELSE Nothing
    /\ UNCHANGED <<propagation_method, session, complex>>

\* the text the user reads when a run displays no result: st.error at lines
\* 329, 436 and 439; an uncaught exception is shown by Streamlit itself
Reported(d) ==
    CASE d.kind = "unable" -> "Unable to calculate result or error. Check your inputs."
      [] d.kind = "calc_error" -> "Error in calculation"
      [] d.kind = "parse_error" -> "Error parsing expression"
      [] d.kind = "exception" -> "ZeroDivisionError"
      [] OTHER -> ""

\* lines 495-501: the summary shows the stored propagated error when it is
\* not None
SummaryShowsPropagatedError == propagated_error # None

\* ------------------------------------------------------------------------
\* User interactions; each starts one run of the script
\* ------------------------------------------------------------------------

\* The user selects the other propagation method (line 239)
SelectMethod(m) ==
    /\ ErrorAnalysisStays
    /\ m # propagation_method
    /\ propagation_method' = m
    /\ event' = "method"
    /\ IF m = Complex
       THEN /\ ComplexRun(TextBox, NoEdit, FALSE)
            /\ ResetOperands
       ELSE /\ ResetOperands
            /\ inputs' = <<>> /\ button' = FALSE
            /\ shown' = Nothing
            /\ UNCHANGED session

\* The user replaces the text of the expression box (line 338)
EnterExpression(t) ==
    /\ ErrorAnalysisStays
    /\ propagation_method = Complex
    /\ t # error_formula
    /\ event' = "expression"
    /\ ComplexRun(t, NoEdit, FALSE)
    /\ UNCHANGED <<propagation_method, basic>>

\* The user enters a value for a variable (line 367)
SetValue(name, v) ==
    /\ ErrorAnalysisStays
    /\ propagation_method = Complex
    /\ name \in Range(inputs)
    /\ v # error_variables[name].value
    /\ event' = "value"
    /\ ComplexRun(TextBox, Edit(name, "value", v), FALSE)
    /\ UNCHANGED <<propagation_method, basic>>

\* The user enters an uncertainty for a variable (line 371); the input does
\* not accept a number below min_value
SetUncertainty(name, u) ==
    /\ ErrorAnalysisStays
    /\ propagation_method = Complex
    /\ name \in Range(inputs)
    /\ u # error_variables[name].uncertainty
    /\ IF u.n < min_value.n
       THEN /\ event' = "rejected"
            /\ UNCHANGED <<propagation_method, session, complex, basic, shown>>
       ELSE /\ event' = "uncertainty"
            /\ ComplexRun(TextBox, Edit(name, "uncertainty", u), FALSE)
            /\ UNCHANGED <<propagation_method, basic>>

\* The user presses "Calculate Propagated Error" (line 381)
Calculate ==
    /\ ErrorAnalysisStays
    /\ propagation_method = Complex
    /\ button
    /\ event' = "calculate"
    /\ ComplexRun(TextBox, NoEdit, TRUE)
    /\ UNCHANGED <<propagation_method, basic>>

\* The user uses any other widget of the page: the script runs again with the
\* same inputs
Rerun ==
    /\ ErrorAnalysisStays
    /\ event' = "rerun"
    /\ IF propagation_method = Complex
       THEN /\ ComplexRun(TextBox, NoEdit, FALSE)
            /\ UNCHANGED <<propagation_method, basic>>
       ELSE BasicRun(operation, value_a, uncertainty_a, value_b, uncertainty_b,
                     power_n, FALSE)

\* Basic Operations: the operation select box (line 244)
SelectOperation(op) ==
    /\ ErrorAnalysisStays
    /\ propagation_method = Basic
    /\ op # operation
    /\ event' = "operation"
    /\ BasicRun(op, value_a, uncertainty_a,
                IF operation = "Power" THEN RZero ELSE value_b,
                IF operation = "Power" THEN RZero ELSE uncertainty_b,
                R(2, 1), FALSE)

\* Basic Operations: the number inputs (lines 250-258)
SetA(v) ==
    /\ ErrorAnalysisStays
    /\ propagation_method = Basic
    /\ v # value_a
    /\ event' = "value"
    /\ BasicRun(operation, v, uncertainty_a, value_b, uncertainty_b, power_n, FALSE)

SetUncertaintyA(u) ==
    /\ ErrorAnalysisStays
    /\ propagation_method = Basic
    /\ u # uncertainty_a
    /\ IF u.n < min_value.n
       THEN /\ event' = "rejected"
            /\ UNCHANGED <<propagation_method, session, complex, basic, shown>>
       ELSE /\ event' = "uncertainty"
            /\ BasicRun(operation, value_a, u, value_b, uncertainty_b, power_n, FALSE)

SetB(v) ==
    /\ ErrorAnalysisStays
    /\ propagation_method = Basic
    /\ operation # "Power"
    /\ v # value_b
    /\ event' = "value"
    /\ BasicRun(operation, value_a, uncertainty_a, v, uncertainty_b, power_n, FALSE)

SetUncertaintyB(u) ==
    /\ ErrorAnalysisStays
    /\ propagation_method = Basic
    /\ operation # "Power"
    /\ u # uncertainty_b
    /\ IF u.n < min_value.n
       THEN /\ event' = "rejected"
            /\ UNCHANGED <<propagation_method, session, complex, basic, shown>>
       ELSE /\ event' = "uncertainty"
            /\ BasicRun(operation, value_a, uncertainty_a, value_b, u, power_n, FALSE)

SetPower(n) ==
    /\ ErrorAnalysisStays
    /\ propagation_method = Basic
    /\ operation = "Power"
    /\ n # power_n
    /\ event' = "value"
    /\ BasicRun(operation, value_a, uncertainty_a, value_b, uncertainty_b, n, FALSE)

\* Basic Operations: the user presses "Calculate Propagated Error" (line 261)
BasicCalculate ==
    /\ ErrorAnalysisStays
    /\ propagation_method = Basic
    /\ event' = "calculate"
    /\ BasicRun(operation, value_a, uncertainty_a, value_b, uncertainty_b,
                power_n, TRUE)

\* ------------------------------------------------------------------------
\* The other pages of the app.  The session state is shared by the pages;
\* the widgets of a page that is not shown come back with their defaults.
\* The pages of the app that write the experiment and its hypothesis are
\* not visited, so the report's title and text templates stay empty.
\* ------------------------------------------------------------------------

\* 3_Data_Analysis.py, one run of the page.  Step 1 (lines 30-140): the
\* example data, or the uploaded file, or the stored table, or a table of
\* zeros, with the edited cells written over it when "Update Data Table" was
\* pressed.  Step 2 (lines 148-225): the plot.  Step 3 (lines 237-462): the
\* selected test, and its result when the button of the test was pressed;
\* "Correlation" stores nothing, "Linear Regression" no p-value.
DataAnalysisRun(example, file, edited, regression, selected, pressed) ==
    LET table == IF example THEN ExampleData
                 ELSE IF edited # NoTable THEN edited
                 ELSE IF file # NoTable THEN file
                 ELSE IF data_df = NoTable THEN ZeroTable
                 ELSE data_df
    IN  /\ data_df' = table
        /\ use_example' = example /\ uploaded_file' = file
        /\ add_regression' = regression
        /\ fig' = ScatterPlot(table, regression)
        /\ analysis_type' = selected
        /\ stat_result' =
              IF pressed /\ selected \in {"T-test", "ANOVA", "Linear Regression"}
              THEN [by |-> selected, of |-> table]
              ELSE IF selected # analysis_type THEN NoResult
              ELSE stat_result
        /\ p_value' =
              IF pressed /\ selected \in {"T-test", "ANOVA"}
              THEN [by |-> selected, of |-> table]
              ELSE IF selected # analysis_type THEN NoResult
              ELSE p_value

\* 4_Error_Analysis.py lines 85-213, Step 2 of one run of the page: the
\* uncertainty of the data column is stored (lines 127-128)
Step2Run(method, measurements, value) ==
    /\ uncertainty_method' = method
    /\ manual_measurements' = measurements
    /\ instrument_value' = value
    /\ step2' = Step2(data_df, method, measurements, value)
    /\ calculated_abs_uncertainty' =
          IF data_df = NoTable THEN calculated_abs_uncertainty
          ELSE Step2(data_df, method, measurements, value).data.absolute
    /\ calculated_percentage_uncertainty' =
          IF data_df = NoTable THEN calculated_percentage_uncertainty
          ELSE Step2(data_df, method, measurements, value).data.percentage

\* what Step 2 displays while another page is shown
NoStep2 ==
    [data |-> [absolute |-> None, percentage |-> None],
     manual |-> [i \in 1..3 |-> None],
     instrument |-> [percentage |-> None, warning |-> FALSE]]

\* The user opens another page from the sidebar: its script runs with every
\* widget at its default
OpenPage(p) ==
    /\ p # page
    /\ page' = p
    /\ event' = "open"
    /\ propagation_method' = Basic
    /\ ResetOperands
    /\ inputs' = <<>> /\ button' = FALSE
    /\ shown' = Nothing
    /\ report' = NoReport
    /\ UNCHANGED <<session, student_name, title, introduction, conclusion>>
    /\ IF p = "Data Analysis"
       THEN DataAnalysisRun(FALSE, NoTable, NoTable, TRUE, "T-test", FALSE)
       ELSE /\ use_example' = FALSE /\ uploaded_file' = NoTable
            /\ add_regression' = TRUE
            /\ fig' = Figure(FALSE, RZero, RZero, "", FALSE)
            /\ UNCHANGED <<data_df, analysis_type, p_value, stat_result>>
    /\ IF p = "Error Analysis"
       THEN Step2Run(Methods[1], <<>>, RZero)
       ELSE /\ uncertainty_method' = Methods[1]
            /\ manual_measurements' = <<>>
            /\ instrument_value' = RZero
            /\ step2' = NoStep2
            /\ UNCHANGED <<calculated_abs_uncertainty, calculated_percentage_uncertainty>>

\* Data Analysis: the example data checkbox (line 30); the file uploader is
\* rendered only without it
ToggleExample ==
    /\ page = "Data Analysis"
    /\ event' = "example"
    /\ DataAnalysisRun(~use_example, NoTable, NoTable, add_regression,
                       analysis_type, FALSE)
    /\ UNCHANGED <<page, propagation_method, session, complex, basic, shown,
                   uncertainty, report_generation>>

\* Data Analysis: the user uploads a CSV file (line 74)
UploadCsv(file) ==
    /\ page = "Data Analysis"
    /\ ~use_example
    /\ file # uploaded_file
    /\ event' = "upload"
    /\ DataAnalysisRun(FALSE, file, NoTable, add_regression, analysis_type, FALSE)
    /\ UNCHANGED <<page, propagation_method, session, complex, basic, shown,
                   uncertainty, report_generation>>

\* Data Analysis: the user presses "Update Data Table" (line 137) with the
\* cells edited to the given table
UpdateDataTable(edited) ==
    /\ page = "Data Analysis"
    /\ ~use_example
    /\ event' = "update"
    /\ DataAnalysisRun(FALSE, uploaded_file, edited, add_regression,
                       analysis_type, FALSE)
    /\ UNCHANGED <<page, propagation_method, session, complex, basic, shown,
                   uncertainty, report_generation>>

\* Data Analysis: the regression line checkbox (line 173)
ToggleRegression ==
    /\ page = "Data Analysis"
    /\ event' = "regression"
    /\ DataAnalysisRun(use_example, uploaded_file, NoTable, ~add_regression,
                       analysis_type, FALSE)
    /\ UNCHANGED <<page, propagation_method, session, complex, basic, shown,
                   uncertainty, report_generation>>

\* a select box that leaves the results of the test selected before
SelectAnalysisKeeping(selected) ==
    /\ page = "Data Analysis"
    /\ selected # analysis_type
    /\ event' = "select"
    /\ analysis_type' = selected
    /\ UNCHANGED <<data_df, p_value, stat_result, use_example, uploaded_file,
                   add_regression, fig>>
    /\ UNCHANGED <<page, propagation_method, session, complex, basic, shown,
                   uncertainty, report_generation>>

\* Data Analysis: the select box of the statistical test (line 242)
SelectAnalysis(selected) ==
    /\ page = "Data Analysis"
    /\ selected # analysis_type
    /\ event' = "select"
    /\ DataAnalysisRun(use_example, uploaded_file, NoTable, add_regression,
                       selected, FALSE)
    /\ UNCHANGED <<page, propagation_method, session, complex, basic, shown,
                   uncertainty, report_generation>>

\* Data Analysis: the button of the selected test (lines 263, 291, 403)
RunTest ==
    /\ page = "Data Analysis"
    /\ event' = "test"
    /\ DataAnalysisRun(use_example, uploaded_file, NoTable, add_regression,
                       analysis_type, TRUE)
    /\ UNCHANGED <<page, propagation_method, session, complex, basic, shown,
                   uncertainty, report_generation>>

\* Error Analysis: a widget of Step 2 is used; the calculator below it is
\* rendered again with the same inputs
Step2Interaction(method, measurements, value) ==
    /\ page = "Error Analysis"
    /\ event' = "step2"
    /\ Step2Run(method, measurements, value)
    /\ UNCHANGED <<page, data_analysis, report_generation>>
    /\ IF propagation_method = Complex
       THEN /\ ComplexRun(TextBox, NoEdit, FALSE)
            /\ UNCHANGED <<propagation_method, basic>>
       ELSE BasicRun(operation, value_a, uncertainty_a, value_b, uncertainty_b,
                     power_n, FALSE)

\* the radio at line 106, rendered when there is a table
SelectUncertaintyMethod(method) ==
    /\ data_df # NoTable
    /\ method # uncertainty_method
    /\ Step2Interaction(method, manual_measurements, instrument_value)

\* the text area at line 165
EnterMeasurements(measurements) ==
    /\ measurements # manual_measurements
    /\ Step2Interaction(uncertainty_method, measurements, instrument_value)

\* the number input at line 201
SetInstrumentValue(value) ==
    /\ value # instrument_value
    /\ Step2Interaction(uncertainty_method, manual_measurements, value)

\* a press that generates the PDF without looking at the sections
ReportRunUnchecked(name, heading, intro, concl, pressed, pdf_raises) ==
    /\ page = "Report Generation"
    /\ student_name' = name /\ title' = heading
    /\ introduction' = intro /\ conclusion' = concl
    /\ report' = [pdf |-> pressed /\ ~pdf_raises, success |-> pressed /\ ~pdf_raises,
                  errors |-> IF pressed THEN <<"Error generating report">> ELSE <<>>]
    /\ UNCHANGED <<page, propagation_method, session, complex, basic, shown,
                   data_analysis, uncertainty>>

\* 5_Report_Generation.py, one run of the page: the text inputs are written
\* to the session (lines 45, 78, 145, 318); a press of "Generate IA Report"
\* (lines 388-444) checks the sections in order and generates the PDF.  The
\* experiment date is a date, which json.dumps (line 437) does not serialise:
\* the run that generated the PDF ends in the except branch (line 444).
ReportRun(name, heading, intro, concl, pressed, pdf_raises) ==
    /\ page = "Report Generation"
    /\ student_name' = name /\ title' = heading
    /\ introduction' = intro /\ conclusion' = concl
    /\ report' =
          IF ~pressed THEN NoReport
          ELSE IF name = ""
          THEN [NoReport EXCEPT !.errors =
                   <<"Please enter your name before generating the report.">>]
          ELSE IF heading = ""
          THEN [NoReport EXCEPT !.errors =
                   <<"Please enter a title for your IA before generating the report.">>]
          ELSE IF intro = ""
          THEN [NoReport EXCEPT !.errors =
                   <<"Please write an introduction before generating the report.">>]
          ELSE IF data_df = NoTable
          THEN [NoReport EXCEPT !.errors =
                   <<"Please add data in the Data Analysis section before generating the report.">>]
          ELSE IF concl = ""
          THEN [NoReport EXCEPT !.errors =
                   <<"Please write a conclusion before generating the report.">>]
          ELSE [pdf |-> ~pdf_raises, success |-> ~pdf_raises,
                errors |-> <<"Error generating report">>]
    /\ UNCHANGED <<page, propagation_method, session, complex, basic, shown,
                   data_analysis, uncertainty>>

\* Report Generation: the user fills in or clears one of the text inputs
EnterSection(section, text) ==
    /\ event' = "section"
    /\ text # <<student_name, title, introduction, conclusion>>[section]
    /\ ReportRun(IF section = 1 THEN text ELSE student_name,
                 IF section = 2 THEN text ELSE title,
                 IF section = 3 THEN text ELSE introduction,
                 IF section = 4 THEN text ELSE conclusion, FALSE, FALSE)

\* Report Generation: the user presses "Generate IA Report" (line 388);
\* generate_pdf_report may raise
GenerateReport(pdf_raises) ==
    /\ event' = "generate"
    /\ ReportRun(student_name, title, introduction, conclusion, TRUE, pdf_raises)

\* ------------------------------------------------------------------------
\* Inputs the user draws from
\* ------------------------------------------------------------------------

MaxValue       == 2
MaxUncertainty == 1

Values        == {RZero, R(MaxValue, 1)}
Uncertainties == {R(-1, 1), RZero, R(MaxUncertainty, 1)}
Powers        == {R(-1, 1), R(2, 1)}

Texts ==
    { <<"x", "+", "y">>, <<"x", "/", "y">>, <<"x", "*", "y">>,
      <<"x", "-", "x">>, <<"x", "-", "x", "+", "y">>, <<"x", "+", "1">>,
      <<"x", "*", "z">>, <<"x", "+">>, <<>> }

\* The Complex Function calculator
Next ==
    \/ \E m \in {Basic, Complex} : SelectMethod(m)
    \/ \E t \in Texts : EnterExpression(t)
    \/ \E name \in Names, v \in Values : SetValue(name, v)
    \/ \E name \in Names, u \in Uncertainties : SetUncertainty(name, u)
    \/ Calculate
    \/ Rerun

Spec == Init /\ [][Next]_vars

\* Both calculators, with fewer expressions and numbers
PageTexts  == { <<"x", "-", "y">>, <<"x", "/", "y">> }
PageValues == {R(-MaxValue, 1), RZero}

PageNext ==
    \/ \E m \in {Basic, Complex} : SelectMethod(m)
    \/ \E t \in PageTexts : EnterExpression(t)
    \/ \E name \in Names, v \in PageValues : SetValue(name, v)
    \/ \E name \in Names, u \in Uncertainties : SetUncertainty(name, u)
    \/ Calculate
    \/ Rerun
    \/ \E op \in Operations : SelectOperation(op)
    \/ \E v \in PageValues : SetA(v)
    \/ \E u \in Uncertainties : SetUncertaintyA(u)
    \/ \E v \in PageValues : SetB(v)
    \/ \E u \in Uncertainties : SetUncertaintyB(u)
    \/ \E n \in Powers : SetPower(n)
    \/ BasicCalculate

SpecPage == Init /\ [][PageNext]_vars

\* The Complex Function calculator on the worked examples: x^2 at 3 +- 0.1,
\* x*y at 2 +- 0.1 and 3 +- 0.2, and a text without variables
EvalTexts ==
    { <<"x", "^", "2">>, <<"x", "*", "y">>, <<"x", "/", "y">>, <<"2", "+", "3">> }
EvalValues        == {R(2, 1), R(3, 1)}
EvalUncertainties == {R(1, 10), R(2, 10)}

EvalNext ==
    \/ \E m \in {Basic, Complex} : SelectMethod(m)
    \/ \E t \in EvalTexts : EnterExpression(t)
    \/ \E name \in Names, v \in EvalValues : SetValue(name, v)
    \/ \E name \in Names, u \in EvalUncertainties : SetUncertainty(name, u)
    \/ Calculate

SpecEval == Init /\ [][EvalNext]_vars

\* The Basic Operations calculator with every operation, operands of either
\* sign and exponents of either sign, and then the Complex Function calculator
\* on a sum and a difference
CalcTexts         == { <<"x", "+", "y">>, <<"x", "-", "y">> }
CalcValues        == {R(-MaxValue, 1), RZero, R(MaxValue, 1)}
CalcUncertainties == {RZero, R(MaxUncertainty, 1)}
CalcPowers        == {R(-1, 1), RZero, R(2, 1)}

CalcNext ==
    \/ \E op \in Operations : SelectOperation(op)
    \/ \E v \in CalcValues : SetA(v)
    \/ \E u \in CalcUncertainties : SetUncertaintyA(u)
    \/ \E v \in CalcValues : SetB(v)
    \/ \E u \in CalcUncertainties : SetUncertaintyB(u)
    \/ \E n \in CalcPowers : SetPower(n)
    \/ BasicCalculate
    \/ SelectMethod(Complex)
    \/ \E t \in CalcTexts : EnterExpression(t)
    \/ \E name \in Names, v \in CalcValues : SetValue(name, v)
    \/ \E name \in Names, u \in CalcUncertainties : SetUncertainty(name, u)
    \/ Calculate

SpecCalc == Init /\ [][CalcNext]_vars

\* The Data Analysis page, with the other pages opened and left
\* tables the user types or uploads: one with a single x value, and one
\* whose first column has the mean zero
Tables ==
    LET Column(s) == [i \in 1..Len(s) |-> R(s[i], 1)]
    IN  { [c \in 1..(2 + num_trials) |->
              IF c = 1 THEN Column(<<2, 2, 2, 2, 2>>) ELSE Column(<<1, 2, 4, 3, 5>>)],
          [c \in 1..(2 + num_trials) |->
              IF c = 1 THEN Column(<<-2, -1, 0, 1, 2>>) ELSE Column(<<-3, -1, 1, 3, 5>>)] }

AnalysisNext ==
    \/ \E p \in {"Data Analysis", "Error Analysis", "Report Generation"} : OpenPage(p)
    \/ ToggleExample
    \/ \E file \in Tables : UploadCsv(file)
    \/ \E edited \in Tables \cup {ZeroTable} : UpdateDataTable(edited)
    \/ ToggleRegression
    \/ \E selected \in {"T-test", "ANOVA", "Correlation", "Linear Regression"} :
          SelectAnalysis(selected)
    \/ RunTest

SpecAnalysis == Init /\ [][AnalysisNext]_vars

\* Step 2 of the Error Analysis page and the Report Generation page, with
\* the table typed on the Data Analysis page
AppNext ==
    \/ \E p \in {"Data Analysis", "Error Analysis", "Report Generation"} : OpenPage(p)
    \/ ToggleExample
    \/ \E edited \in Tables : UpdateDataTable(edited)
    \/ \E i \in 1..3 : SelectUncertaintyMethod(Methods[i])
    \/ \E measurements \in { <<>>, <<R(1, 1), R(3, 1)>>, <<R(-1, 1), R(1, 1)>>,
                            <<RZero, RZero>>, <<R(2, 1)>> } :
          EnterMeasurements(measurements)
    \/ \E value \in CalcValues : SetInstrumentValue(value)
    \/ \E section \in 1..4, text \in {"", "text"} : EnterSection(section, text)
    \/ \E pdf_raises \in BOOLEAN : GenerateReport(pdf_raises)

SpecApp == Init /\ [][AppNext]_vars

\* ------------------------------------------------------------------------
\* Properties
\* ------------------------------------------------------------------------

\* the free variables sympify finds in a text (none when it does not parse)
FreeVars(t) == IF sympify(t).ok THEN free_symbols(sympify(t).expr) ELSE {}

\* the variable names a text mentions
NamesIn(t) == {t[i] : i \in 1..Len(t)} \cap Names

StrictlyAscending(names) ==
    \A i \in 1..Len(names) - 1 : Ord(names[i]) < Ord(names[i + 1])

XDivY == <<"x", "/", "y">>

\* C1: pressing Calculate on x/y with y bound to 0 ends in a reported
\* evaluation error, and no NaN is displayed or left in the stored
\* propagated_error / percentage_error.
C1_DivisionByZeroIsAnError ==
    (/\ propagation_method = Complex /\ event = "calculate"
     /\ error_formula = XDivY /\ error_variables["y"].value = RZero)
    => (/\ shown.kind = "calc_error"
        /\ propagated_error.k # "nan" /\ percentage_error.k # "nan")

\* C2: an evaluation that ends in an error leaves the stored propagated_error
\* and percentage_error exactly as they were before the press.
C2_FailedEvaluationStoresNothing ==
    [][(event' = "calculate" /\ shown'.kind = "calc_error")
        => (propagated_error' = propagated_error
            /\ percentage_error' = percentage_error)]_vars

\* the percentage is absent for a zero result and propagated / |result| * 100
\* otherwise
PercentMatches(result, pe, pct) ==
    IF IsZero(result) THEN pct = None
    ELSE IF result.k = "nan" \/ pe.k = "nan" THEN pct = NaN
    ELSE /\ pct.k = pe.k
         /\ pe.k = "fin" => RMul(Q(pct), RAbs(Q(result))) = RMul(Q(pe), R(100, 1))
         /\ pe.k = "surd" => RMul(Q(pct), RSq(Q(result))) = RMul(Q(pe), R(10000, 1))

\* C3: in both calculators a displayed result has a percentage error exactly
\* when the nominal result is non-zero, it then equals
\* propagated / |nominal| * 100, and the Complex Function calculator stores
\* what it displays.
C3_PercentageDefinedIffNonZero ==
    /\ shown.kind = "result"
         => PercentMatches(shown.result, shown.propagated_error,
                           shown.percentage_error)
    /\ (shown.kind = "result" /\ propagation_method = Complex)
         => (/\ propagated_error = shown.propagated_error
             /\ percentage_error = shown.percentage_error)

C3_Witness ==
    /\ propagation_method = Complex /\ shown.kind = "result"
    /\ IsZero(shown.result)
    /\ shown.propagated_error.k = "fin" /\ shown.propagated_error.n > 0
    /\ percentage_error = None

XMinusX == <<"x", "-", "x">>

\* C4: the text x-x is accepted with the variable list [x], and pressing
\* Calculate on it displays the nominal value 0 with no percentage error.
C4_CancellingExpressionEvaluates ==
    (propagation_method = Complex /\ error_formula = XMinusX)
    => (/\ shown.kind # "parse_error"
        /\ inputs = <<"x">>
        /\ event = "calculate"
             => (/\ shown.kind = "result" /\ IsZero(shown.result)
                 /\ shown.percentage_error = None))

\* C5: when a changed expression is parsed, every variable of both the old
\* and the new expression keeps its binding, and every name new to the store
\* gets the binding (0.0, 0.0).
C5_PersistingBindingsKept ==
    [][(/\ propagation_method' = Complex
        /\ error_formula' # error_formula
        /\ sympify(error_formula').ok)
        => (/\ \A v \in FreeVars(error_formula) \cap FreeVars(error_formula') :
                  /\ v \in DOMAIN error_variables
                  /\ error_variables'[v] = error_variables[v]
            /\ \A v \in DOMAIN error_variables' \ DOMAIN error_variables :
                  error_variables'[v] = NewBinding)]_vars

C5_Witness ==
    /\ event = "expression" /\ error_formula = <<"x", "*", "z">>
    /\ inputs = <<"x", "z">>
    /\ error_variables["x"] = [value |-> R(MaxValue, 1),
                               uncertainty |-> R(MaxUncertainty, 1)]
    /\ error_variables["z"] = NewBinding

\* C6: after the store is reconciled with a parsed expression its keys are
\* exactly the free variables of that expression.
C6_StoreKeysAreTheFreeVariables ==
    (propagation_method = Complex /\ sympify(error_formula).ok)
    => DOMAIN error_variables = FreeVars(error_formula)

\* C7: when the expression is changed from one that does not mention v to one
\* that does, v starts with the binding (0.0, 0.0), not with numbers entered
\* earlier.
C7_NoStaleValuesResurrected ==
    [][(/\ event' = "expression"
        /\ sympify(error_formula).ok /\ sympify(error_formula').ok)
        => \A v \in FreeVars(error_formula') \ NamesIn(error_formula) :
              error_variables'[v] = NewBinding]_vars

\* C8: no binding of the store and no operand of the basic calculator ever
\* has a negative uncertainty, and an attempt to enter one changes neither.
C8_UncertaintiesNeverNegative ==
    /\ [](/\ \A v \in DOMAIN error_variables : error_variables[v].uncertainty.n >= 0
          /\ uncertainty_a.n >= 0 /\ uncertainty_b.n >= 0)
    /\ [][event' = "rejected"
           => UNCHANGED <<error_variables, uncertainty_a, uncertainty_b>>]_vars

C8_Witness ==
    /\ event = "rejected" /\ propagation_method = Complex
    /\ error_variables["x"].uncertainty = R(MaxUncertainty, 1)

\* C9: for a text that parses without a reported error, the variable list is
\* strictly ascending by name and holds exactly the names the text mentions.
C9_VariablesSortedAndExact ==
    (/\ propagation_method = Complex
     /\ sympify(error_formula).ok /\ shown.kind # "parse_error")
    => (StrictlyAscending(inputs) /\ Range(inputs) = NamesIn(error_formula))

\* C10: a run on a malformed text reports a parse error, renders no variable
\* input and no button, evaluates nothing, and leaves the store and the stored
\* propagated_error / percentage_error unchanged.
C10_ParseFailsAtomically ==
    [][(propagation_method' = Complex /\ ~sympify(error_formula').ok)
        => (/\ shown'.kind = "parse_error"
            /\ inputs' = <<>> /\ ~button'
            /\ UNCHANGED <<error_variables, propagated_error, percentage_error>>)]_vars

C10_Witness ==
    /\ event = "expression" /\ error_formula = <<"x", "+">>
    /\ shown.kind = "parse_error"
    /\ DOMAIN error_variables # {} /\ propagated_error # None

\* C11: a text without variables, such as 2+3, is not reported as a parse
\* error; it parses with an empty variable list.
C11_ConstantExpressionIsNoParseError ==
    (propagation_method = Complex /\ error_formula = <<"2", "+", "3">>)
    => (shown.kind # "parse_error" /\ inputs = <<>>)

\* the square of a displayed real number
SquareOf(v) == IF v.k = "surd" THEN Q(v) ELSE RSq(Q(v))

\* the exact partial derivatives of the texts, written out by hand:
\* x^2: 2x;  x*y: y, x;  x+y: 1, 1;  x-y: 1, -1;  x/y: 1/y, -x/y^2
PartialsDefined(text, ev) ==
    text = XDivY => ev["y"].value.n # 0

SumOfSquaredTerms(text, ev) ==
    CASE text = <<"x", "^", "2">> ->
           RSq(RMul(RMul(R(2, 1), ev["x"].value), ev["x"].uncertainty))
      [] text = <<"x", "*", "y">> ->
           RAdd(RSq(RMul(ev["y"].value, ev["x"].uncertainty)),
                RSq(RMul(ev["x"].value, ev["y"].uncertainty)))
      [] text \in {<<"x", "+", "y">>, <<"x", "-", "y">>} ->
           RAdd(RSq(ev["x"].uncertainty), RSq(ev["y"].uncertainty))
      [] text = XDivY ->
           RAdd(RSq(RMul(RInv(ev["y"].value), ev["x"].uncertainty)),
                RSq(RMul(RMul(ev["x"].value, RInv(RSq(ev["y"].value))),
                         ev["y"].uncertainty)))

XSquaredExample ==
    /\ error_formula = <<"x", "^", "2">>
    /\ error_variables["x"] = [value |-> R(3, 1), uncertainty |-> R(1, 10)]

XTimesYExample ==
    /\ error_formula = <<"x", "*", "y">>
    /\ error_variables["x"] = [value |-> R(2, 1), uncertainty |-> R(1, 10)]
    /\ error_variables["y"] = [value |-> R(3, 1), uncertainty |-> R(2, 10)]

\* the law of combination wherever every partial derivative has a value
PropagationLawWhereDefined ==
    (/\ propagation_method = Complex /\ event = "calculate"
     /\ PartialsDefined(error_formula, error_variables))
    => (/\ shown.kind = "result"
        /\ shown.propagated_error.k \in {"fin", "surd"}
        /\ SquareOf(shown.propagated_error)
             = SumOfSquaredTerms(error_formula, error_variables)
        /\ XSquaredExample => (/\ shown.result = Fin(R(9, 1))
                               /\ shown.propagated_error = Fin(R(6, 10)))
        /\ XTimesYExample => (/\ shown.result = Fin(R(6, 1))
                              /\ shown.propagated_error = Fin(R(5, 10))))

\* C12: whenever an evaluation displays a result, the square of the
\* propagated uncertainty is the sum over the free variables of (exact partial
\* derivative at the bindings * uncertainty)^2; x^2 at 3 +- 0.1 gives 9 and
\* 0.6, and x*y at 2 +- 0.1, 3 +- 0.2 gives 6 and 0.5.
C12_PropagatedErrorIsRootSumOfSquares ==
    (/\ propagation_method = Complex /\ event = "calculate"
     /\ shown.kind = "result")
    => (/\ PartialsDefined(error_formula, error_variables)
        /\ shown.propagated_error.k \in {"fin", "surd"}
        /\ SquareOf(shown.propagated_error)
             = SumOfSquaredTerms(error_formula, error_variables)
        /\ XSquaredExample => (/\ shown.result = Fin(R(9, 1))
                               /\ shown.propagated_error = Fin(R(6, 10)))
        /\ XTimesYExample => (/\ shown.result = Fin(R(6, 1))
                              /\ shown.propagated_error = Fin(R(5, 10))))

ExamplesEvaluated ==
    /\ propagation_method = Complex /\ event = "calculate"
    /\ XTimesYExample /\ shown.propagated_error = Fin(R(1, 2))

\* C13: for operands of any sign, addition and subtraction give the same
\* propagated uncertainty, whose square is dA^2 + dB^2, in the Basic
\* Operations calculator and for x+y and x-y in the Complex Function
\* calculator.
C13_AdditionAndSubtractionAgree ==
    /\ (/\ propagation_method = Basic /\ event = "calculate"
        /\ operation \in {"Addition", "Subtraction"})
       => (/\ shown.kind = "result"
           /\ shown.propagated_error.k \in {"fin", "surd"}
           /\ SquareOf(shown.propagated_error)
                = RAdd(RSq(uncertainty_a), RSq(uncertainty_b)))
    /\ (/\ propagation_method = Complex /\ event = "calculate"
        /\ error_formula \in {<<"x", "+", "y">>, <<"x", "-", "y">>})
       => (/\ shown.kind = "result"
           /\ shown.propagated_error.k \in {"fin", "surd"}
           /\ SquareOf(shown.propagated_error)
                = RAdd(RSq(error_variables["x"].uncertainty),
                       RSq(error_variables["y"].uncertainty)))

C13_Witness ==
    /\ propagation_method = Complex /\ event = "calculate"
    /\ error_formula = <<"x", "-", "y">>
    /\ error_variables["x"].value = R(-MaxValue, 1)
    /\ error_variables["y"].value = R(MaxValue, 1)
    /\ shown.propagated_error = Surd(R(2 * MaxUncertainty * MaxUncertainty, 1))

\* C14: Multiplication in the Basic Operations calculator with A = 0 or B = 0
\* displays no result and no uncertainty and reports the failure; with both
\* operands non-zero it displays a result and an uncertainty.
C14_MultiplicationByZeroFails ==
    (/\ propagation_method = Basic /\ event = "calculate"
     /\ operation = "Multiplication")
    => IF value_a.n = 0 \/ value_b.n = 0
       THEN /\ shown = Display("unable", None, None, None)
            /\ Reported(shown) # ""
       ELSE /\ shown.kind = "result"
            /\ shown.result = Fin(RMul(value_a, value_b))
            /\ shown.propagated_error.k \in {"fin", "surd"}

C14_Witness ==
    /\ propagation_method = Basic /\ event = "calculate"
    /\ operation = "Multiplication"
    /\ value_a = RZero /\ value_b = R(MaxValue, 1)
    /\ uncertainty_a = R(MaxUncertainty, 1)
    /\ shown.kind = "unable"

\* C15: Division in the Basic Operations calculator displays no result when
\* B = 0 and when A = 0, and the reason reported for A = 0 (undefined) is not
\* the reason the same press reports with B = 0 (division by zero).
C15_DivisionFailuresAreDistinct ==
    (/\ propagation_method = Basic /\ event = "calculate"
     /\ operation = "Division")
    => (/\ value_b.n = 0 => shown.kind = "unable"
        /\ (value_a.n = 0 /\ value_b.n # 0)
             => (/\ shown.kind = "unable"
                 /\ Reported(shown)
                      # Reported(BasicCompute("Division", value_a, uncertainty_a,
                                              RZero, uncertainty_b, power_n))))

\* C16: Power in the Basic Operations calculator with A = 0 reports the
\* failure for every exponent n and displays no result and no uncertainty.
C16_PowerOfZeroFails ==
    (/\ propagation_method = Basic /\ event = "calculate"
     /\ operation = "Power" /\ value_a.n = 0)
    => shown = Display("unable", None, None, None)

\* C17: every press of "Calculate Propagated Error", in either calculator,
\* ends in a displayed result or in an error message of the page, never in
\* an uncaught exception.
C17_NoUncaughtException ==
    event = "calculate" => shown.kind \in {"result", "unable", "calc_error"}

\* the expression that corresponds to an operation of the basic calculator,
\* A written x and B written y
DigitText(k) == CASE k = 1 -> "1" [] k = 2 -> "2" [] k = 3 -> "3"

ExpressionOf(op, n) ==
    CASE op = "Addition" -> <<"x", "+", "y">>
      [] op = "Subtraction" -> <<"x", "-", "y">>
      [] op = "Multiplication" -> <<"x", "*", "y">>
      [] op = "Division" -> <<"x", "/", "y">>
      [] op = "Power" -> IF n.n < 0 THEN <<"x", "^", "-", DigitText(-n.n)>>
                                    ELSE <<"x", "^", DigitText(n.n)>>

OperandBindings ==
    [v \in {"x", "y"} |->
        IF v = "x" THEN [value |-> value_a, uncertainty |-> uncertainty_a]
                   ELSE [value |-> value_b, uncertainty |-> uncertainty_b]]

\* what the Complex Function evaluator makes of an expression under the
\* operands of the basic calculator
GeneralOutcomeOf(expr) ==
    Evaluate(expr, SortByName(free_symbols(expr)), OperandBindings)

GeneralOutcome == GeneralOutcomeOf(sympify(ExpressionOf(operation, power_n)).expr)

SameOutcome(d, out) ==
    IF d.kind = "result"
    THEN /\ out.kind = "result"
         /\ out.result = d.result
         /\ out.propagated_error = d.propagated_error
    ELSE out.kind # "result"

BasicPressed ==
    /\ propagation_method = Basic /\ event = "calculate"
    /\ operation = "Power" => (power_n.d = 1 /\ AbsInt(power_n.n) \in 1..3)

\* C18: the outcome of the basic calculator (result and propagated
\* uncertainty, or failure) is the outcome of the Complex Function evaluator
\* on the corresponding expression under the same bindings.
C18_BasicAgreesWithGeneralEvaluator ==
    BasicPressed => SameOutcome(shown, GeneralOutcome)

\* the two agree whenever no operand is zero
AgreementOnNonZeroOperands ==
    (/\ BasicPressed /\ value_a.n # 0
     /\ operation # "Power" => value_b.n # 0)
    => (shown.kind = "result" /\ SameOutcome(shown, GeneralOutcome))

\* what pressing Calculate on the stored text and bindings would store
StoredBy(out) ==
    /\ out.kind = "result"
    /\ propagated_error = out.propagated_error
    /\ percentage_error = out.percentage_error

CurrentOutcomeOf(expr) ==
    Evaluate(expr, SortByName(free_symbols(expr)), error_variables)

\* C19: whenever the summary shows a stored propagated error, it is the one
\* computed from the current expression text and the current values and
\* uncertainties.
C19_StoredResultIsCurrent ==
    SummaryShowsPropagatedError
    => (/\ sympify(error_formula).ok
        /\ StoredBy(CurrentOutcomeOf(sympify(error_formula).expr)))

\* C20: a press of Calculate in the Complex Function calculator, whether it
\* ends in a result or in an error, leaves the stored expression text and
\* every binding's value and uncertainty unchanged.
C20_EvaluationLeavesInputsUnchanged ==
    [][(event' = "calculate" /\ propagation_method' = Complex)
        => UNCHANGED <<error_formula, error_variables>>]_vars

C20_Witness ==
    /\ propagation_method = Complex /\ event = "calculate"
    /\ shown.kind = "calc_error"
    /\ error_variables["x"] = [value |-> R(MaxValue, 1),
                               uncertainty |-> R(MaxUncertainty, 1)]

\* the variable list a text parses to
VariablesOf(t) == IF sympify(t).ok THEN SortByName(FreeVars(t)) ELSE <<>>

\* what an evaluation of the stored text under the stored bindings displays
DisplayedBy(out) ==
    IF out.kind = "result"
    THEN Display("result", out.result, out.propagated_error, out.percentage_error)
    ELSE Display("calc_error", None, None, None)

\* C21: the variable list depends on the text alone, what a press of Calculate
\* displays depends on the expression and the bindings of its variables alone
\* (not on earlier expressions, bindings or results), and a second press with
\* the same inputs displays and stores the same as the first.
C21_ParsingAndEvaluationAreDeterministic ==
    /\ [](propagation_method = Complex => inputs = VariablesOf(error_formula))
    /\ []((propagation_method = Complex /\ event = "calculate")
            => shown = DisplayedBy(CurrentOutcomeOf(sympify(error_formula).expr)))
    /\ [][(/\ propagation_method = Complex /\ event = "calculate"
            /\ event' = "calculate")
            => (/\ shown' = shown
                /\ propagated_error' = propagated_error
                /\ percentage_error' = percentage_error)]_vars

C21_Witness ==
    /\ propagation_method = Complex /\ event = "calculate"
    /\ error_formula = <<"x", "*", "y">> /\ shown.kind = "result"
    /\ shown.propagated_error # XZero
    /\ "z" \in DOMAIN error_variables
    /\ error_variables["z"].value = R(MaxValue, 1)

\* C22: whenever the Complex Function calculator can start an evaluation,
\* every free variable of the expression has a binding in the store.
C22_EveryFreeVariableIsBound ==
    (propagation_method = Complex /\ sympify(error_formula).ok)
    => (/\ FreeVars(error_formula) \subseteq DOMAIN error_variables
        /\ button => Range(inputs) = FreeVars(error_formula))

C22_Witness ==
    /\ propagation_method = Complex /\ event = "calculate"
    /\ error_formula = <<"x", "*", "z">> /\ shown.kind = "result"
    /\ DOMAIN error_variables = {"x", "y", "z"}

\* C24: a stored percentage error that is not None comes with a stored
\* propagated error that is not None.
C24_PercentageImpliesPropagated ==
    percentage_error # None => propagated_error # None

C24_Witness ==
    /\ event = "calculate" /\ shown.kind = "result"
    /\ percentage_error.k = "fin" /\ percentage_error.n > 0
    /\ propagated_error.k = "fin"

\* C25: a press of Calculate in the Basic Operations calculator leaves the
\* stored expression, bindings, propagated error and percentage error
\* unchanged, and the stored results change only by a press in the Complex
\* Function calculator.
C25_BasicCalculatorLeavesSessionUnchanged ==
    /\ [][(event' = "calculate" /\ propagation_method' = Basic)
            => UNCHANGED session]_vars
    /\ [][(\/ propagated_error' # propagated_error
            \/ percentage_error' # percentage_error)
            => (event' = "calculate" /\ propagation_method' = Complex)]_vars

C25_Witness ==
    /\ propagation_method = Basic /\ event = "calculate"
    /\ shown.kind = "result" /\ shown.propagated_error = Fin(R(MaxUncertainty, 1))
    /\ propagated_error = Surd(R(2 * MaxUncertainty * MaxUncertainty, 1))


C26_PercentageOnlyForNonZeroReference ==
    page = "Error Analysis"
    => (/\ (data_df # NoTable /\ np_mean(data_df[1]) = RZero)
            => step2.data.percentage = None
        /\ calculated_percentage_uncertainty.k \notin {"inf", "nan"}
        /\ (manual_measurements # <<>> /\ np_mean(manual_measurements) = RZero)
            => \A i \in 1..3 : step2.manual[i] = None
        /\ instrument_value = RZero
            => (step2.instrument.percentage = None /\ step2.instrument.warning))


\* C27: when the selected test differs from the stored analysis_type, the
\* run stores the selection and resets p_value and stat_result to None
\* before any test runs; so a stat_result or p_value that is not None was
\* produced by a run of the stored analysis_type, and a p_value only by the
\* T-test or the ANOVA
C27_ResultsBelongToTheStoredTest ==
    /\ [][analysis_type' # analysis_type
            => (p_value' = NoResult /\ stat_result' = NoResult)]_vars
    /\ [](/\ stat_result # NoResult => stat_result.by = analysis_type
          /\ p_value # NoResult
                => (p_value.by = analysis_type /\ p_value.by \in {"T-test", "ANOVA"}))

C27_Witness ==
    /\ page = "Data Analysis" /\ event = "test"
    /\ analysis_type = "Linear Regression"
    /\ stat_result = [by |-> "Linear Regression", of |-> data_df]
    /\ p_value = NoResult
    /\ data_df \in Tables


\* C28: the stored p_value and stat_result always belong to the current data
\* table: after "Update Data Table", a CSV upload or the example data have
\* changed the table, no result computed from the table before is kept
C28_ResultsBelongToTheCurrentTable ==
    /\ stat_result # NoResult => stat_result.of = data_df
    /\ p_value # NoResult => p_value.of = data_df


\* C29: a press of "Generate IA Report" generates the report only if the
\* student name, the title, the introduction and the conclusion are not empty
\* and the data table is not empty; otherwise it generates no report and
\* shows exactly one error message, that of the first failing check in the
\* order name, title, introduction, data, conclusion
C29_ReportNeedsEverySection ==
    event = "generate"
    => LET failing ==
               IF student_name = ""
               THEN <<"Please enter your name before generating the report.">>
               ELSE IF title = ""
               THEN <<"Please enter a title for your IA before generating the report.">>
               ELSE IF introduction = ""
               THEN <<"Please write an introduction before generating the report.">>
               ELSE IF data_df = NoTable
               THEN <<"Please add data in the Data Analysis section before generating the report.">>
               ELSE IF conclusion = ""
               THEN <<"Please write a conclusion before generating the report.">>
               ELSE <<>>
       IN  /\ report.pdf => failing = <<>>
           /\ failing # <<>>
                 => (~report.pdf /\ ~report.success /\ report.errors = failing)
           /\ failing = <<>> => \A i \in 1..Len(report.errors) :
                                    report.errors[i] = "Error generating report"

\* the name and the title are there; the introduction, the table and the
\* conclusion are missing
C29_Witness ==
    /\ event = "generate"
    /\ student_name # "" /\ title # "" /\ introduction = ""
    /\ data_df = NoTable /\ conclusion = ""
    /\ report.errors = <<"Please write an introduction before generating the report.">>

====
